---- MODULE Spec2Model ----
(***************************************************************************)
(* State-machine model of the circular countdown timers of circle-counter. *)
(*                                                                         *)
(*   - src/app/CircularTimer2.tsx : the useTimer hook (1 s tick, overtime,  *)
(*     play/pause and stop controls).  Variables without prefix.           *)
(*   - src/app/CircularTimer.tsx  : the 100 ms tick variant driven by an   *)
(*     isPlaying prop.  Variables with prefix ct_.                         *)
(*                                                                         *)
(* React is modelled as follows.  An event (a button press, an interval     *)
(* firing, a zero-delay timeout firing, a prop change by the host, an       *)
(* unmount) is one action: the handler's state updates are batched, the     *)
(* component re-renders, and every effect whose dependency list changed     *)
(* runs (all cleanups first, then the bodies in source order); state set    *)
(* by an effect causes a further render and effect pass, until nothing      *)
(* changes.  A closure created by a render (an interval callback) keeps the *)
(* values of the render that created it.  State updater functions run once  *)
(* (production build, no StrictMode double invocation).                     *)
(*                                                                         *)
(* Numbers.  Times of CircularTimer2.tsx are integer seconds.  Ring         *)
(* offsets are exact rationals <<num, den>> in units of the circumference   *)
(* (the circumference is a positive real, so circumference * x is           *)
(* represented by x).  Times of CircularTimer.tsx are integer tenths of a   *)
(* second (one tick = 0.1 s).                                              *)
(***************************************************************************)
EXTENDS Integers, FiniteSets, Sequences, TLC

\* ------------------------------------------------------------------ bounds
MaxDuration == 3
MaxNegDuration == 1
MaxOvertime == 5
NumCallbacks == 2

\* `initialDuration.current || 60`
OvertimeFallback == 60

PositiveDurations == 1..MaxDuration
AnyDurations == (0 - MaxNegDuration)..MaxDuration
Callbacks == 1..NumCallbacks

\* the null of intervalRef
Null == 0

\* --------------------------------------------------------------- rationals
Abs(x) == IF x < 0 THEN 0 - x ELSE x

RECURSIVE Gcd(_, _)
Gcd(a, b) == IF b = 0 THEN a ELSE Gcd(b, a % b)

Sign(x) == IF x < 0 THEN 0 - 1 ELSE IF x > 0 THEN 1 ELSE 0

\* n / d as JavaScript computes it on numbers (x / 0 is +-Infinity, kept as
\* <<+-1, 0>>), in lowest terms with a non-negative denominator
Rat(n, d) ==
    IF d = 0 THEN <<Sign(n), 0>>
    ELSE LET g == Gcd(Abs(n), Abs(d))
             s == IF d < 0 THEN 0 - 1 ELSE 1
         IN  <<(s * n) \div g, (s * d) \div g>>

RLeq(a, b) == a[1] * b[2] <= b[1] * a[2]
RMin(a, b) == IF RLeq(a, b) THEN a ELSE b
RMax(a, b) == IF RLeq(a, b) THEN b ELSE a
ROne == <<1, 1>>
RZero == <<0, 1>>
\* mutant: the `1 -` forgotten
ROneMinus_Identity(r) == r

\* 1 - r
ROneMinus(r) == IF r[2] = 0 THEN <<0 - r[1], 0>> ELSE Rat(r[2] - r[1], r[2])

\* the circumference prop, in units of itself
circumference == ROne
\* circumference * x
TimesCircumference(x) == x

\* ================================================================== state
VARIABLES
    \* ---- CircularTimer2.tsx, useTimer
    duration,         \* prop: countdown length in seconds
    onComplete,       \* prop: identity of the callback passed by the host
    remainingTime,    \* useState(duration)
    offset,           \* useState(0)
    isPlaying,        \* useState(false)
    isOvertime,       \* useState(false)
    overtimeOffset,   \* useState(circumference)
    intervalRef,      \* useRef(null): id of the interval, or Null
    initialDuration,  \* useRef(duration)
    intervals,        \* the active setInterval timers: [id, isOvertime, onComplete],
                      \* the last two being the values the callback closed over
    mounted,          \* the component is mounted
    \* ---- observation of the run (not program state)
    lastStep,         \* the operation that produced this state
    completedNow,     \* onComplete invocations made inside the last step
    completeCalls,    \* onComplete invocations since play was last pressed
    runTicks,         \* ticks since play was last pressed; -1 once the
                      \* duration prop changed during the run
    sinceStop,        \* stop was pressed and play has not been pressed since
    frozen,           \* remainingTime when pause was last pressed, while no
                      \* stop, restart or duration change followed; else 0
    \* ---- CircularTimer.tsx (times in tenths of a second)
    ct_duration,         \* prop
    ct_isPlaying,        \* prop, set by the host
    ct_onComplete,       \* prop: identity of the callback passed by the host
    ct_remainingTime,    \* useState(duration)
    ct_overtimeSeconds,  \* useState(0)
    ct_isOvertime,       \* useState(false)
    ct_intervalRef,      \* useRef(null)
    ct_initialDuration,  \* useRef(duration)
    ct_intervals,        \* the active setInterval timers: [id, isOvertime, onComplete]
    ct_timeouts,         \* the pending setTimeout(..., 0) callbacks, in order: the
                         \* onComplete each closed over
    ct_mounted,          \* the component is mounted
    \* ---- observation of the run (not program state)
    ct_lastStep,         \* the operation that produced this state
    ct_completedNow,     \* onComplete invocations made inside the last step
    \* ---- unnamed/part_000 (the variant without overtime)
    p0_duration,         \* prop
    p0_isPlaying,        \* prop, set by the host
    p0_onComplete,       \* prop: identity of the callback passed by the host
    p0_remainingTime,    \* useState(duration)
    p0_offset,           \* useState(1)
    p0_intervalRef,      \* useRef(null)
    p0_initialDuration,  \* useRef(duration)
    p0_intervals,        \* the active setInterval timers: [id, onComplete]
    p0_timeouts,         \* the pending setTimeout(..., 0) callbacks, in order: the
                         \* onComplete each closed over
    p0_hasCleanup,       \* the last run of the countdown effect returned a cleanup
    p0_mounted,          \* the component is mounted
    \* ---- observation of the run (not program state)
    p0_lastStep,         \* the operation that produced this state
    p0_ticks,            \* interval callbacks run since mount
    p0_completeCalls,    \* onComplete invocations since mount
    \* ---- a call of formatTime of CircularTimer2.tsx
    fmt_seconds,         \* the argument
    fmt_isOvertime,      \* the isOvertime the function closed over
    fmt_text             \* the returned string, as a sequence of characters;
                         \* <<>> before the call

t2vars == <<duration, onComplete, remainingTime, offset, isPlaying, isOvertime,
            overtimeOffset, intervalRef, initialDuration, intervals, mounted,
            lastStep, completedNow, completeCalls, runTicks, sinceStop, frozen>>

ctvars == <<ct_duration, ct_isPlaying, ct_onComplete, ct_remainingTime,
            ct_overtimeSeconds, ct_isOvertime, ct_intervalRef, ct_initialDuration,
            ct_intervals, ct_timeouts, ct_mounted, ct_lastStep, ct_completedNow>>

p0vars == <<p0_duration, p0_isPlaying, p0_onComplete, p0_remainingTime,
            p0_offset, p0_intervalRef, p0_initialDuration, p0_intervals,
            p0_timeouts, p0_hasCleanup, p0_mounted, p0_lastStep, p0_ticks,
            p0_completeCalls>>

fmtvars == <<fmt_seconds, fmt_isOvertime, fmt_text>>

\* the hook's props, state and refs as one value
Cur ==
    [duration |-> duration, onComplete |-> onComplete,
     remainingTime |-> remainingTime, offset |-> offset, isPlaying |-> isPlaying,
     isOvertime |-> isOvertime, overtimeOffset |-> overtimeOffset,
     intervalRef |-> intervalRef, initialDuration |-> initialDuration,
     intervals |-> intervals]

Apply(s) ==
    /\ duration' = s.duration
    /\ onComplete' = s.onComplete
    /\ remainingTime' = s.remainingTime
    /\ offset' = s.offset
    /\ isPlaying' = s.isPlaying
    /\ isOvertime' = s.isOvertime
    /\ overtimeOffset' = s.overtimeOffset
    /\ intervalRef' = s.intervalRef
    /\ initialDuration' = s.initialDuration
    /\ intervals' = s.intervals

\* ------------------------------------------------------------- timers
\* setInterval returns an id that no live timer and no held reference uses
FreshId(ivs, ref) ==
    CHOOSE i \in 1..(Cardinality(ivs) + 2) : i # ref /\ \A iv \in ivs : iv.id # i

clearInterval(ivs, id) == {iv \in ivs : iv.id # id}

\* `if (intervalRef.current) { clearInterval(intervalRef.current); intervalRef.current = null; }`
ClearIntervalRef(s) ==
    IF s.intervalRef # Null
    THEN [s EXCEPT !.intervals = clearInterval(s.intervals, s.intervalRef),
                   !.intervalRef = Null]
    ELSE s

\* ------------------------------------------------------------- effects
\* mutant: the tick effect returns no cleanup
TickEffectCleanup_None(s) == s

\* cleanup returned by the tick effect
TickEffectCleanup(s) == ClearIntervalRef(s)

\* `if (!intervalRef.current) { intervalRef.current = setInterval(...) }`
CreateInterval(s) ==
    IF s.intervalRef = Null
    THEN LET id == FreshId(s.intervals, s.intervalRef)
         IN  [s EXCEPT !.intervals = s.intervals \cup
                           {[id |-> id, isOvertime |-> s.isOvertime,
                             onComplete |-> s.onComplete]},
                       !.intervalRef = id]
    ELSE s

\* body of the tick effect
TickEffect(s) ==
    IF ~s.isPlaying THEN ClearIntervalRef(s) ELSE CreateInterval(s)

\* mutant: isOvertime left out of the tick effect's dependency list
TickEffectDeps_NoOvertime(s) == <<s.isPlaying, circumference, s.onComplete>>

\* dependency list of the tick effect
TickEffectDeps(s) == <<s.isPlaying, circumference, s.onComplete, s.isOvertime>>

\* mutant: the reset forgets `initialDuration.current = duration`
DurationEffect_KeepsReference(s) ==
    IF ~s.isPlaying
    THEN [s EXCEPT !.remainingTime = s.duration,
                   !.offset = RZero,
                   !.isOvertime = FALSE,
                   !.overtimeOffset = circumference]
    ELSE s

\* mutant: the reset forgets `setIsOvertime(false)`
DurationEffect_KeepsOvertime(s) ==
    IF ~s.isPlaying
    THEN [s EXCEPT !.remainingTime = s.duration,
                   !.offset = RZero,
                   !.overtimeOffset = circumference,
                   !.initialDuration = s.duration]
    ELSE s

\* mutant: the reset runs while playing too
DurationEffect_Always(s) ==
    [s EXCEPT !.remainingTime = s.duration,
              !.offset = RZero,
              !.isOvertime = FALSE,
              !.overtimeOffset = circumference,
              !.initialDuration = s.duration]

\* body of the duration-reset effect
DurationEffect(s) ==
    IF ~s.isPlaying
    THEN [s EXCEPT !.remainingTime = s.duration,
                   !.offset = RZero,
                   !.isOvertime = FALSE,
                   !.overtimeOffset = circumference,
                   !.initialDuration = s.duration]
    ELSE s

\* dependency list of the duration-reset effect
DurationEffectDeps(s) == <<s.duration, s.isPlaying, circumference>>

\* what a render reads: a change of any of these re-renders the component
Rendered(s) ==
    <<s.duration, s.onComplete, s.remainingTime, s.offset, s.isPlaying,
      s.isOvertime, s.overtimeOffset>>

\* One commit: `old` is the previously committed render, `s` the new one.
\* Cleanups of the effects whose dependencies changed run first, then their
\* bodies in source order; state set by an effect commits again.
RECURSIVE Commit(_, _)
Commit(old, s) ==
    LET tickChanged == TickEffectDeps(s) # TickEffectDeps(old)
        durChanged == DurationEffectDeps(s) # DurationEffectDeps(old)
        s1 == IF tickChanged THEN TickEffect(TickEffectCleanup(s)) ELSE s
        s2 == IF durChanged THEN DurationEffect(s1) ELSE s1
    IN  IF Rendered(s2) # Rendered(s) THEN Commit(s, s2) ELSE s2

\* ------------------------------------------------------------ handlers
\* handlePlayPause: the state after the handler's batched updates
PlayPauseUpdate(s) ==
    LET r == IF s.remainingTime <= 0 /\ ~s.isPlaying
             THEN [s EXCEPT !.remainingTime = s.duration,
                            !.offset = RZero,
                            !.isOvertime = FALSE,
                            !.overtimeOffset = circumference,
                            !.initialDuration = s.duration]
             ELSE s
    IN  [r EXCEPT !.isPlaying = ~s.isPlaying]

\* mutant: handleStop forgets `setIsPlaying(false)`
StopUpdate_KeepsPlaying(s) ==
    ClearIntervalRef([s EXCEPT !.remainingTime = s.duration,
                               !.offset = RZero,
                               !.isOvertime = FALSE,
                               !.overtimeOffset = circumference])

\* handleStop: the state after the handler's batched updates
StopUpdate(s) ==
    ClearIntervalRef([s EXCEPT !.isPlaying = FALSE,
                               !.remainingTime = s.duration,
                               !.offset = RZero,
                               !.isOvertime = FALSE,
                               !.overtimeOffset = circumference])

\* `disabled={!isPlaying && remainingTime === duration}`
StopDisabled == ~isPlaying /\ remainingTime = duration

\* mutant: completion detected at `nextTime < 0`
TickCompletes_Late(s, iv) == s.remainingTime - 1 < 0 /\ ~iv.isOvertime

\* the interval callback's closure iv decides whether this tick completes
TickCompletes(s, iv) == s.remainingTime - 1 <= 0 /\ ~iv.isOvertime

\* mutant: the overtime ratio without `Math.min(1, ...)`
OvertimeRatio_Unclamped(s, nextTime) ==
    LET overtimeDuration == IF s.initialDuration # 0 THEN s.initialDuration
                            ELSE OvertimeFallback
        overtimeElapsed == Abs(nextTime)
    IN  Rat(overtimeElapsed, overtimeDuration)

\* ratio of the overtime ring
OvertimeRatio(s, nextTime) ==
    LET overtimeDuration == IF s.initialDuration # 0 THEN s.initialDuration
                            ELSE OvertimeFallback
        overtimeElapsed == Abs(nextTime)
    IN  RMin(ROne, Rat(overtimeElapsed, overtimeDuration))

\* mutant: the ratio taken from the time before the decrement
CurrentRatio_Stale(s, nextTime) ==
    RMax(RZero, Rat(s.remainingTime, s.initialDuration))

\* ratio of the main ring
CurrentRatio(s, nextTime) == RMax(RZero, Rat(nextTime, s.initialDuration))

\* the updater passed to setRemainingTime by the interval callback, with the
\* state updates it makes itself
TickUpdate(s, iv) ==
    LET nextTime == s.remainingTime - 1
    IN  IF nextTime <= 0
        THEN LET a == IF TickCompletes(s, iv)
                      THEN [s EXCEPT !.isOvertime = TRUE, !.offset = RZero]
                      ELSE s
             IN  [a EXCEPT !.overtimeOffset =
                               TimesCircumference(ROneMinus(OvertimeRatio(s, nextTime))),
                           !.remainingTime = nextTime]
        ELSE [s EXCEPT !.offset =
                           TimesCircumference(ROneMinus(CurrentRatio(s, nextTime))),
                       !.remainingTime = nextTime]

\* ================================================================= actions
\* the play/pause button
PlayPause ==
    /\ mounted
    /\ Apply(Commit(Cur, PlayPauseUpdate(Cur)))
    /\ lastStep' = IF isPlaying THEN "pause"
                   ELSE IF remainingTime <= 0 THEN "restart" ELSE "play"
    /\ completedNow' = 0
    /\ completeCalls' = IF isPlaying THEN completeCalls ELSE 0
    /\ runTicks' = IF isPlaying THEN runTicks ELSE 0
    /\ sinceStop' = IF isPlaying THEN sinceStop ELSE FALSE
    /\ frozen' = IF isPlaying THEN remainingTime
                 ELSE IF remainingTime <= 0 THEN 0 ELSE frozen
    /\ UNCHANGED mounted
    /\ UNCHANGED <<ctvars, p0vars, fmtvars>>

\* the stop button
Stop ==
    /\ mounted
    /\ ~StopDisabled
    /\ Apply(Commit(Cur, StopUpdate(Cur)))
    /\ lastStep' = "stop"
    /\ completedNow' = 0
    /\ sinceStop' = TRUE
    /\ frozen' = 0
    /\ UNCHANGED <<mounted, completeCalls, runTicks>>
    /\ UNCHANGED <<ctvars, p0vars, fmtvars>>

\* an interval fires (React drops state updates of an unmounted component)
Tick ==
    /\ mounted
    /\ remainingTime > 0 - MaxOvertime
    /\ \E iv \in intervals :
        /\ Apply(Commit(Cur, TickUpdate(Cur, iv)))
        /\ completedNow' = IF TickCompletes(Cur, iv) THEN 1 ELSE 0
        /\ completeCalls' = IF TickCompletes(Cur, iv) THEN completeCalls + 1
                            ELSE completeCalls
    /\ lastStep' = "tick"
    /\ runTicks' = IF runTicks >= 0 THEN runTicks + 1 ELSE runTicks
    /\ UNCHANGED <<mounted, sinceStop, frozen>>
    /\ UNCHANGED <<ctvars, p0vars, fmtvars>>

\* the host re-renders with another duration
SetDuration(D) ==
    /\ mounted
    /\ \E d \in D \ {duration} :
        Apply(Commit(Cur, [Cur EXCEPT !.duration = d]))
    /\ lastStep' = "setDuration"
    /\ completedNow' = 0
    /\ runTicks' = IF isPlaying THEN 0 - 1 ELSE runTicks
    /\ frozen' = 0
    /\ UNCHANGED <<mounted, completeCalls, sinceStop>>
    /\ UNCHANGED <<ctvars, p0vars, fmtvars>>

\* the host re-renders with another onComplete function
SetOnComplete ==
    /\ mounted
    /\ \E c \in Callbacks \ {onComplete} :
        Apply(Commit(Cur, [Cur EXCEPT !.onComplete = c]))
    /\ lastStep' = "setOnComplete"
    /\ completedNow' = 0
    /\ UNCHANGED <<mounted, completeCalls, runTicks, sinceStop, frozen>>
    /\ UNCHANGED <<ctvars, p0vars, fmtvars>>

\* the component unmounts: every effect's cleanup runs
Unmount ==
    /\ mounted
    /\ mounted' = FALSE
    /\ Apply(TickEffectCleanup(Cur))
    /\ lastStep' = "unmount"
    /\ completedNow' = 0
    /\ UNCHANGED <<completeCalls, runTicks, sinceStop, frozen>>
    /\ UNCHANGED <<ctvars, p0vars, fmtvars>>

\* the state after the first render and its effects
InitTimer2(D) ==
    /\ duration \in D
    /\ onComplete \in Callbacks
    /\ remainingTime = duration
    /\ offset = RZero
    /\ isPlaying = FALSE
    /\ isOvertime = FALSE
    /\ overtimeOffset = circumference
    /\ intervalRef = Null
    /\ initialDuration = duration
    /\ intervals = {}
    /\ mounted = TRUE
    /\ lastStep = "init"
    /\ completedNow = 0
    /\ completeCalls = 0
    /\ runTicks = 0
    /\ sinceStop = FALSE
    /\ frozen = 0

\* CircularTimer2.tsx is not on screen
Timer2Absent ==
    /\ duration = 1
    /\ onComplete = 1
    /\ remainingTime = 1
    /\ offset = RZero
    /\ isPlaying = FALSE
    /\ isOvertime = FALSE
    /\ overtimeOffset = circumference
    /\ intervalRef = Null
    /\ initialDuration = 1
    /\ intervals = {}
    /\ mounted = FALSE
    /\ lastStep = "absent"
    /\ completedNow = 0
    /\ completeCalls = 0
    /\ runTicks = 0
    /\ sinceStop = FALSE
    /\ frozen = 0

\* ======================================================= CircularTimer.tsx
\* one second in ticks of the 100 ms interval
TicksPerSecond == 10

CtCur ==
    [duration |-> ct_duration, isPlaying |-> ct_isPlaying,
     onComplete |-> ct_onComplete, remainingTime |-> ct_remainingTime,
     overtimeSeconds |-> ct_overtimeSeconds, isOvertime |-> ct_isOvertime,
     intervalRef |-> ct_intervalRef, initialDuration |-> ct_initialDuration,
     intervals |-> ct_intervals, timeouts |-> ct_timeouts]

CtApply(s) ==
    /\ ct_duration' = s.duration
    /\ ct_isPlaying' = s.isPlaying
    /\ ct_onComplete' = s.onComplete
    /\ ct_remainingTime' = s.remainingTime
    /\ ct_overtimeSeconds' = s.overtimeSeconds
    /\ ct_isOvertime' = s.isOvertime
    /\ ct_intervalRef' = s.intervalRef
    /\ ct_initialDuration' = s.initialDuration
    /\ ct_intervals' = s.intervals
    /\ ct_timeouts' = s.timeouts

\* startTimer as created by render r (it closes over r's isOvertime and
\* onComplete), called on s
startTimer(s, r) ==
    LET cleared == IF s.intervalRef # Null
                   THEN clearInterval(s.intervals, s.intervalRef)
                   ELSE s.intervals
        id == FreshId(cleared, s.intervalRef)
    IN  [s EXCEPT !.intervals = cleared \cup
                      {[id |-> id, isOvertime |-> r.isOvertime,
                        onComplete |-> r.onComplete]},
                  !.intervalRef = id]

pauseTimer(s) == ClearIntervalRef(s)

\* cleanup returned by the isPlaying effect: clears, and keeps the reference
CtPlayingEffectCleanup(s) ==
    IF s.intervalRef # Null
    THEN [s EXCEPT !.intervals = clearInterval(s.intervals, s.intervalRef)]
    ELSE s

\* body of the isPlaying effect, in render r
CtPlayingEffect(s, r) == IF r.isPlaying THEN startTimer(s, r) ELSE pauseTimer(s)

\* startTimer's identity: useCallback(..., [isOvertime, onComplete])
StartTimerDeps(s) == <<s.isOvertime, s.onComplete>>

CtPlayingEffectDeps(s) == <<s.isPlaying, StartTimerDeps(s)>>

\* body of the duration-reset effect, in render r
CtDurationEffect(s, r) ==
    LET a == [s EXCEPT !.initialDuration = r.duration,
                       !.remainingTime = r.duration * TicksPerSecond,
                       !.isOvertime = FALSE,
                       !.overtimeSeconds = 0]
    IN  IF r.isPlaying
        THEN startTimer([a EXCEPT !.intervals =
                               IF a.intervalRef # Null
                               THEN clearInterval(a.intervals, a.intervalRef)
                               ELSE a.intervals], r)
        ELSE a

CtDurationEffectDeps(s) == <<s.duration, s.isPlaying, StartTimerDeps(s)>>

CtRendered(s) ==
    <<s.duration, s.isPlaying, s.onComplete, s.remainingTime, s.overtimeSeconds,
      s.isOvertime>>

\* One commit of CircularTimer.tsx: `old` is the previously committed render,
\* `s` the new one.
RECURSIVE CtCommit(_, _)
CtCommit(old, s) ==
    LET playChanged == CtPlayingEffectDeps(s) # CtPlayingEffectDeps(old)
        durChanged == CtDurationEffectDeps(s) # CtDurationEffectDeps(old)
        s1 == IF playChanged THEN CtPlayingEffect(CtPlayingEffectCleanup(s), s)
              ELSE s
        s2 == IF durChanged THEN CtDurationEffect(s1, s) ELSE s1
    IN  IF CtRendered(s2) # CtRendered(s) THEN CtCommit(s, s2) ELSE s2

\* the first render and its effects
CtMount(d, playing, c) ==
    LET r == [duration |-> d, isPlaying |-> playing, onComplete |-> c,
              remainingTime |-> d * TicksPerSecond, overtimeSeconds |-> 0,
              isOvertime |-> FALSE, intervalRef |-> Null, initialDuration |-> d,
              intervals |-> {}, timeouts |-> <<>>]
        s2 == CtDurationEffect(CtPlayingEffect(r, r), r)
    IN  IF CtRendered(s2) # CtRendered(r) THEN CtCommit(r, s2) ELSE s2

\* the interval callback with closure iv
CtTickUpdate(s, iv) ==
    IF iv.isOvertime
    THEN [s EXCEPT !.overtimeSeconds = s.overtimeSeconds + 1]
    ELSE IF s.remainingTime <= 1
         THEN [s EXCEPT !.timeouts = Append(s.timeouts, iv.onComplete),
                        !.remainingTime = 0]
         ELSE [s EXCEPT !.remainingTime = s.remainingTime - 1]

\* an interval fires; a zero-delay timeout that is pending is due before it
CtTick ==
    /\ ct_mounted
    /\ ct_timeouts = <<>>
    /\ ct_overtimeSeconds < MaxOvertime * TicksPerSecond
    /\ \E iv \in ct_intervals : CtApply(CtCommit(CtCur, CtTickUpdate(CtCur, iv)))
    /\ ct_lastStep' = "tick"
    /\ ct_completedNow' = 0
    /\ UNCHANGED ct_mounted
    /\ UNCHANGED <<t2vars, p0vars, fmtvars>>

\* the deferred callback of a completed countdown runs:
\* `setIsOvertime(true); onComplete?.()`
CtTimeout ==
    /\ ct_timeouts # <<>>
    /\ LET s == [CtCur EXCEPT !.timeouts = Tail(ct_timeouts)]
       IN  IF ct_mounted
           THEN CtApply(CtCommit(CtCur, [s EXCEPT !.isOvertime = TRUE]))
           ELSE CtApply(s)
    /\ ct_lastStep' = "timeout"
    /\ ct_completedNow' = 1
    /\ UNCHANGED ct_mounted
    /\ UNCHANGED <<t2vars, p0vars, fmtvars>>

\* the host re-renders with the other isPlaying
CtSetIsPlaying ==
    /\ ct_mounted
    /\ CtApply(CtCommit(CtCur, [CtCur EXCEPT !.isPlaying = ~ct_isPlaying]))
    /\ ct_lastStep' = "setIsPlaying"
    /\ ct_completedNow' = 0
    /\ UNCHANGED ct_mounted
    /\ UNCHANGED <<t2vars, p0vars, fmtvars>>

\* the host re-renders with another duration
CtSetDuration(D) ==
    /\ ct_mounted
    /\ \E d \in D \ {ct_duration} :
        CtApply(CtCommit(CtCur, [CtCur EXCEPT !.duration = d]))
    /\ ct_lastStep' = "setDuration"
    /\ ct_completedNow' = 0
    /\ UNCHANGED ct_mounted
    /\ UNCHANGED <<t2vars, p0vars, fmtvars>>

\* the host re-renders with another onComplete function
CtSetOnComplete ==
    /\ ct_mounted
    /\ \E c \in Callbacks \ {ct_onComplete} :
        CtApply(CtCommit(CtCur, [CtCur EXCEPT !.onComplete = c]))
    /\ ct_lastStep' = "setOnComplete"
    /\ ct_completedNow' = 0
    /\ UNCHANGED ct_mounted
    /\ UNCHANGED <<t2vars, p0vars, fmtvars>>

\* the component unmounts: the isPlaying effect's cleanup runs
CtUnmount ==
    /\ ct_mounted
    /\ ct_mounted' = FALSE
    /\ CtApply(CtPlayingEffectCleanup(CtCur))
    /\ ct_lastStep' = "unmount"
    /\ ct_completedNow' = 0
    /\ UNCHANGED <<t2vars, p0vars, fmtvars>>

\* the state after the first render and its effects
InitTimer(D) ==
    /\ \E d \in D, playing \in BOOLEAN, c \in Callbacks :
        LET s == CtMount(d, playing, c)
        IN  /\ ct_duration = s.duration
            /\ ct_isPlaying = s.isPlaying
            /\ ct_onComplete = s.onComplete
            /\ ct_remainingTime = s.remainingTime
            /\ ct_overtimeSeconds = s.overtimeSeconds
            /\ ct_isOvertime = s.isOvertime
            /\ ct_intervalRef = s.intervalRef
            /\ ct_initialDuration = s.initialDuration
            /\ ct_intervals = s.intervals
            /\ ct_timeouts = s.timeouts
    /\ ct_mounted = TRUE
    /\ ct_lastStep = "init"
    /\ ct_completedNow = 0

\* CircularTimer.tsx is not on screen
TimerAbsent ==
    /\ ct_duration = 1
    /\ ct_isPlaying = FALSE
    /\ ct_onComplete = 1
    /\ ct_remainingTime = TicksPerSecond
    /\ ct_overtimeSeconds = 0
    /\ ct_isOvertime = FALSE
    /\ ct_intervalRef = Null
    /\ ct_initialDuration = 1
    /\ ct_intervals = {}
    /\ ct_timeouts = <<>>
    /\ ct_mounted = FALSE
    /\ ct_lastStep = "absent"
    /\ ct_completedNow = 0

\* ========================================================= unnamed/part_000
\* `useState(1)`: one pixel, not a multiple of the circumference
P0InitialOffset == [unit |-> "px", value |-> ROne]
\* `circumference * (1 - ratio)`
P0Offset(x) == [unit |-> "circumference", value |-> TimesCircumference(x)]

P0Cur ==
    [duration |-> p0_duration, isPlaying |-> p0_isPlaying,
     onComplete |-> p0_onComplete, remainingTime |-> p0_remainingTime,
     offset |-> p0_offset, intervalRef |-> p0_intervalRef,
     initialDuration |-> p0_initialDuration, intervals |-> p0_intervals,
     timeouts |-> p0_timeouts, hasCleanup |-> p0_hasCleanup]

P0Apply(s) ==
    /\ p0_duration' = s.duration
    /\ p0_isPlaying' = s.isPlaying
    /\ p0_onComplete' = s.onComplete
    /\ p0_remainingTime' = s.remainingTime
    /\ p0_offset' = s.offset
    /\ p0_intervalRef' = s.intervalRef
    /\ p0_initialDuration' = s.initialDuration
    /\ p0_intervals' = s.intervals
    /\ p0_timeouts' = s.timeouts
    /\ p0_hasCleanup' = s.hasCleanup

\* cleanup of the countdown effect, when its last run returned one
P0EffectCleanup(s) == IF s.hasCleanup THEN ClearIntervalRef(s) ELSE s

\* body of the countdown effect
P0Effect(s) ==
    IF ~s.isPlaying THEN [s EXCEPT !.hasCleanup = FALSE]
    ELSE IF s.remainingTime > 0
         THEN LET id == FreshId(s.intervals, s.intervalRef)
              IN  [s EXCEPT !.intervals = s.intervals \cup
                                {[id |-> id, onComplete |-> s.onComplete]},
                            !.intervalRef = id,
                            !.hasCleanup = TRUE]
         ELSE [s EXCEPT !.hasCleanup = FALSE]

\* dependency list of the countdown effect
P0EffectDeps(s) == <<s.isPlaying, s.remainingTime, circumference, s.onComplete>>

\* one commit of part_000: the effect sets no state, so one pass settles
P0Commit(old, s) ==
    IF P0EffectDeps(s) # P0EffectDeps(old) THEN P0Effect(P0EffectCleanup(s)) ELSE s

\* the first render and its effect
P0Mount(d, playing, c) ==
    P0Effect([duration |-> d, isPlaying |-> playing, onComplete |-> c,
              remainingTime |-> d, offset |-> P0InitialOffset,
              intervalRef |-> Null, initialDuration |-> d, intervals |-> {},
              timeouts |-> <<>>, hasCleanup |-> FALSE])

\* mutant: the end of the countdown detected at `prev <= 0`
P0TickUpdate_LateStop(s, iv) ==
    IF s.remainingTime <= 0
    THEN [ClearIntervalRef(s) EXCEPT !.timeouts = Append(s.timeouts, iv.onComplete),
                                     !.remainingTime = 0]
    ELSE [s EXCEPT !.offset = P0Offset(ROneMinus(
                                  Rat(s.remainingTime - 1, s.initialDuration))),
                   !.remainingTime = s.remainingTime - 1]

\* the updater passed to setRemainingTime by the interval callback with
\* closure iv
P0TickUpdate(s, iv) ==
    IF s.remainingTime <= 1
    THEN [ClearIntervalRef(s) EXCEPT !.timeouts = Append(s.timeouts, iv.onComplete),
                                     !.remainingTime = 0]
    ELSE [s EXCEPT !.offset = P0Offset(ROneMinus(
                                  Rat(s.remainingTime - 1, s.initialDuration))),
                   !.remainingTime = s.remainingTime - 1]

\* an interval fires
P0Tick ==
    /\ p0_mounted
    /\ \E iv \in p0_intervals : P0Apply(P0Commit(P0Cur, P0TickUpdate(P0Cur, iv)))
    /\ p0_lastStep' = "tick"
    /\ p0_ticks' = p0_ticks + 1
    /\ UNCHANGED <<p0_mounted, p0_completeCalls>>
    /\ UNCHANGED <<t2vars, ctvars, fmtvars>>

\* the deferred callback of a completed countdown runs: `onComplete?.()`
P0Timeout ==
    /\ p0_timeouts # <<>>
    /\ P0Apply([P0Cur EXCEPT !.timeouts = Tail(p0_timeouts)])
    /\ p0_lastStep' = "timeout"
    /\ p0_completeCalls' = p0_completeCalls + 1
    /\ UNCHANGED <<p0_mounted, p0_ticks>>
    /\ UNCHANGED <<t2vars, ctvars, fmtvars>>

\* the host re-renders with the other isPlaying
P0SetIsPlaying ==
    /\ p0_mounted
    /\ P0Apply(P0Commit(P0Cur, [P0Cur EXCEPT !.isPlaying = ~p0_isPlaying]))
    /\ p0_lastStep' = "setIsPlaying"
    /\ UNCHANGED <<p0_mounted, p0_ticks, p0_completeCalls>>
    /\ UNCHANGED <<t2vars, ctvars, fmtvars>>

\* the host re-renders with another duration
P0SetDuration(D) ==
    /\ p0_mounted
    /\ \E d \in D \ {p0_duration} :
        P0Apply(P0Commit(P0Cur, [P0Cur EXCEPT !.duration = d]))
    /\ p0_lastStep' = "setDuration"
    /\ UNCHANGED <<p0_mounted, p0_ticks, p0_completeCalls>>
    /\ UNCHANGED <<t2vars, ctvars, fmtvars>>

\* the host re-renders with another onComplete function
P0SetOnComplete ==
    /\ p0_mounted
    /\ \E c \in Callbacks \ {p0_onComplete} :
        P0Apply(P0Commit(P0Cur, [P0Cur EXCEPT !.onComplete = c]))
    /\ p0_lastStep' = "setOnComplete"
    /\ UNCHANGED <<p0_mounted, p0_ticks, p0_completeCalls>>
    /\ UNCHANGED <<t2vars, ctvars, fmtvars>>

\* the component unmounts: the effect's cleanup runs
P0Unmount ==
    /\ p0_mounted
    /\ p0_mounted' = FALSE
    /\ P0Apply(P0EffectCleanup(P0Cur))
    /\ p0_lastStep' = "unmount"
    /\ UNCHANGED <<p0_ticks, p0_completeCalls>>
    /\ UNCHANGED <<t2vars, ctvars, fmtvars>>

\* the state after the first render and its effect
InitPart000(D) ==
    /\ \E d \in D, playing \in BOOLEAN, c \in Callbacks :
        LET s == P0Mount(d, playing, c)
        IN  /\ p0_duration = s.duration
            /\ p0_isPlaying = s.isPlaying
            /\ p0_onComplete = s.onComplete
            /\ p0_remainingTime = s.remainingTime
            /\ p0_offset = s.offset
            /\ p0_intervalRef = s.intervalRef
            /\ p0_initialDuration = s.initialDuration
            /\ p0_intervals = s.intervals
            /\ p0_timeouts = s.timeouts
            /\ p0_hasCleanup = s.hasCleanup
    /\ p0_mounted = TRUE
    /\ p0_lastStep = "init"
    /\ p0_ticks = 0
    /\ p0_completeCalls = 0

\* part_000 is not on screen
Part000Absent ==
    /\ p0_duration = 1
    /\ p0_isPlaying = FALSE
    /\ p0_onComplete = 1
    /\ p0_remainingTime = 1
    /\ p0_offset = P0InitialOffset
    /\ p0_intervalRef = Null
    /\ p0_initialDuration = 1
    /\ p0_intervals = {}
    /\ p0_timeouts = <<>>
    /\ p0_hasCleanup = FALSE
    /\ p0_mounted = FALSE
    /\ p0_lastStep = "absent"
    /\ p0_ticks = 0
    /\ p0_completeCalls = 0

\* ============================================== formatTime (CircularTimer2)
\* largest |seconds| formatted
MaxFormatSeconds == 6005

DigitChars == <<"0", "1", "2", "3", "4", "5", "6", "7", "8", "9">>

\* a non-negative integer in a template literal: its decimal digits
RECURSIVE NumberToString(_)
NumberToString(n) ==
    IF n < 10 THEN <<DigitChars[n + 1]>>
    ELSE NumberToString(n \div 10) \o <<DigitChars[(n % 10) + 1]>>

\* mutant: minutes not padded, as in CircularTimer.tsx
formatTime_UnpaddedMinutes(seconds, overtime) ==
    LET totalSeconds == Abs(seconds)
        minutes == totalSeconds \div 60
        remainingSeconds == totalSeconds % 60
        formattedTime ==
            NumberToString(minutes) \o <<":">> \o
            (IF remainingSeconds < 10 THEN <<"0">> ELSE <<>>) \o
            NumberToString(remainingSeconds)
    IN  IF overtime THEN <<"+">> \o formattedTime ELSE formattedTime

\* formatTime on an integer number of seconds (Math.floor is the identity)
formatTime(seconds, overtime) ==
    LET displaySeconds == Abs(seconds)
        totalSeconds == displaySeconds
        minutes == totalSeconds \div 60
        remainingSeconds == totalSeconds % 60
        formattedTime ==
            (IF minutes < 10 THEN <<"0">> ELSE <<>>) \o
            NumberToString(minutes) \o <<":">> \o
            (IF remainingSeconds < 10 THEN <<"0">> ELSE <<>>) \o
            NumberToString(remainingSeconds)
    IN  IF overtime THEN <<"+">> \o formattedTime ELSE formattedTime

\* formatTime is called
Format ==
    /\ fmt_text = <<>>
    /\ fmt_text' = formatTime(fmt_seconds, fmt_isOvertime)
    /\ UNCHANGED <<fmt_seconds, fmt_isOvertime>>
    /\ UNCHANGED <<t2vars, ctvars, p0vars>>

\* a call about to be made
InitFormat ==
    /\ fmt_seconds \in (0 - MaxFormatSeconds)..MaxFormatSeconds
    /\ fmt_isOvertime \in BOOLEAN
    /\ fmt_text = <<>>

\* no call of formatTime is observed
FormatAbsent ==
    /\ fmt_seconds = 0
    /\ fmt_isOvertime = FALSE
    /\ fmt_text = <<>>

vars == <<t2vars, ctvars, p0vars, fmtvars>>

\* CircularTimer2.tsx with a positive duration, as its props require
Init == InitTimer2(PositiveDurations) /\ TimerAbsent /\ Part000Absent /\ FormatAbsent

Next ==
    \/ PlayPause
    \/ Stop
    \/ Tick
    \/ SetDuration(PositiveDurations)
    \/ SetOnComplete
    \/ Unmount

Spec == Init /\ [][Next]_vars

\* CircularTimer2.tsx with any duration, zero and negative included
InitAny == InitTimer2(AnyDurations) /\ TimerAbsent /\ Part000Absent /\ FormatAbsent

NextAny ==
    \/ PlayPause
    \/ Stop
    \/ Tick
    \/ SetDuration(AnyDurations)
    \/ SetOnComplete
    \/ Unmount

SpecAny == InitAny /\ [][NextAny]_vars

\* CircularTimer.tsx with a positive duration
InitCt == Timer2Absent /\ InitTimer(PositiveDurations) /\ Part000Absent /\ FormatAbsent

NextCt ==
    \/ CtTick
    \/ CtTimeout
    \/ CtSetIsPlaying
    \/ CtSetDuration(PositiveDurations)
    \/ CtSetOnComplete
    \/ CtUnmount

SpecCt == InitCt /\ [][NextCt]_vars

\* unnamed/part_000 with a positive duration
InitP0 == Timer2Absent /\ TimerAbsent /\ InitPart000(PositiveDurations) /\ FormatAbsent

NextP0 ==
    \/ P0Tick
    \/ P0Timeout
    \/ P0SetIsPlaying
    \/ P0SetDuration(PositiveDurations)
    \/ P0SetOnComplete
    \/ P0Unmount

SpecP0 == InitP0 /\ [][NextP0]_vars

\* unnamed/part_000 with any duration, zero and negative included
InitP0Any == Timer2Absent /\ TimerAbsent /\ InitPart000(AnyDurations) /\ FormatAbsent

NextP0Any ==
    \/ P0Tick
    \/ P0Timeout
    \/ P0SetIsPlaying
    \/ P0SetDuration(AnyDurations)
    \/ P0SetOnComplete
    \/ P0Unmount

SpecP0Any == InitP0Any /\ [][NextP0Any]_vars

\* calls of formatTime of CircularTimer2.tsx on integer seconds
InitFmt == Timer2Absent /\ TimerAbsent /\ Part000Absent /\ InitFormat

NextFmt == Format

SpecFmt == InitFmt /\ [][NextFmt]_vars

\* ================================================================== claims
\* C1: pausing a running timer at remaining = r (0 < r < duration) leaves
\* remaining = r with no tick source, and after play is pressed again the
\* k-th tick yields r - k (nothing skipped, nothing counted twice).
C1_PauseRetainsRemaining ==
    (0 < frozen /\ frozen < duration /\ runTicks >= 0) =>
        /\ ~isPlaying => (remainingTime = frozen /\ intervals = {})
        /\ isPlaying => remainingTime = frozen - runTicks

\* C2: after stop, and until play is pressed again, remaining = duration, the
\* timer is neither playing nor in overtime, offset = 0, overtimeOffset =
\* circumference, no tick source is active and no tick occurs.
C2_StopResets ==
    sinceStop =>
        /\ remainingTime = duration
        /\ ~isPlaying
        /\ ~isOvertime
        /\ offset = RZero
        /\ overtimeOffset = circumference
        /\ intervals = {}
        /\ intervalRef = Null
        /\ lastStep # "tick"

\* stop pressed while the timer was running in overtime
C2_Witness == lastStep = "stop" /\ completeCalls = 1 /\ sinceStop

\* C3: during an uninterrupted run started by play, after k <= duration ticks
\* remaining = duration - k; before the duration-th tick the timer is not in
\* overtime and onComplete has not been invoked; at the duration-th tick
\* remaining = 0, the timer is in overtime and onComplete was invoked once.
C3_CountdownCompletes ==
    (isPlaying /\ runTicks >= 0 /\ runTicks <= duration) =>
        /\ remainingTime = duration - runTicks
        /\ runTicks < duration => (~isOvertime /\ completeCalls = 0)
        /\ runTicks = duration =>
               (remainingTime = 0 /\ isOvertime /\ completeCalls = 1)

\* the duration-th tick of an uninterrupted run of the longest duration
C3_Witness ==
    /\ isPlaying
    /\ lastStep = "tick"
    /\ duration = MaxDuration
    /\ runTicks = duration
    /\ completedNow = 1

\* C4: onComplete is never invoked inside the tick's own state update.
C4_CompleteDeferred == lastStep = "tick" => completedNow = 0

\* C5: a step invokes onComplete at most once, and only when it takes
\* remaining from a positive value to <= 0; a run invokes it at most once.
C5_OncePerCrossing ==
    /\ [](completeCalls <= 1)
    /\ [][completedNow' > 0 =>
            (completedNow' = 1 /\ remainingTime > 0 /\ remainingTime' <= 0)]_vars

\* a tick in overtime, after the crossing, that did not invoke onComplete
C5_Witness ==
    /\ lastStep = "tick"
    /\ remainingTime < 0
    /\ isOvertime
    /\ completedNow = 0
    /\ completeCalls = 1

\* C6: one tick source exactly while playing and mounted, none otherwise, and
\* intervalRef refers to it.
C6_OneTickSource ==
    /\ mounted => Cardinality(intervals) = (IF isPlaying THEN 1 ELSE 0)
    /\ ~mounted => intervals = {}
    /\ \A iv \in intervals : iv.id = intervalRef
    /\ intervals = {} => intervalRef = Null

\* the interval replaced on an onComplete change during overtime
C6_Witness ==
    /\ mounted
    /\ isPlaying
    /\ isOvertime
    /\ lastStep = "setOnComplete"
    /\ Cardinality(intervals) = 1

C8_RemainingLeqDuration == remainingTime <= duration

\* C8 (amended): remaining <= initialDuration in every reachable state, and
\* remaining <= duration whenever the timer is not running or the duration
\* prop has not changed since play was last pressed.
C8_RemainingLeqReference ==
    /\ remainingTime <= initialDuration
    /\ (~isPlaying \/ runTicks >= 0) => remainingTime <= duration

\* the duration prop lowered below remaining while the timer runs
C8_Witness ==
    /\ isPlaying
    /\ lastStep = "setDuration"
    /\ duration < remainingTime

\* C9: both ring offsets stay within [0, circumference].
C9_OffsetsInRange ==
    /\ RLeq(RZero, offset) /\ RLeq(offset, circumference)
    /\ RLeq(RZero, overtimeOffset) /\ RLeq(overtimeOffset, circumference)

\* overtime has run longer than the reference duration: the clamp is active
C9_Witness ==
    /\ isOvertime
    /\ 0 - remainingTime > initialDuration
    /\ overtimeOffset = RZero

\* C10: in CircularTimer.tsx, once remaining is 0, ticks and the deferred
\* completion keep remaining at 0, the completion turns overtime on, overtime
\* stays on, and each tick in overtime adds one tick unit to overtimeSeconds.
C10_OvertimePersists ==
    [][(ct_remainingTime = 0 /\ ct_lastStep' \in {"tick", "timeout"}) =>
            /\ ct_remainingTime' = 0
            /\ ct_lastStep' = "timeout" => ct_isOvertime'
            /\ ct_isOvertime => ct_isOvertime'
            /\ (ct_isOvertime /\ ct_lastStep' = "tick") =>
                   ct_overtimeSeconds' = ct_overtimeSeconds + 1]_vars

\* C11: in part_000 with a positive duration, remaining is the duration at
\* mount less the ticks run, never negative; at 0 no tick source is left, and
\* onComplete was invoked, or is about to be, exactly once.
C11_CountdownStopsAtZero ==
    /\ p0_remainingTime = p0_initialDuration - p0_ticks
    /\ p0_remainingTime >= 0
    /\ p0_remainingTime = 0 => (p0_intervals = {} /\ p0_intervalRef = Null)
    /\ p0_completeCalls + Len(p0_timeouts) = (IF p0_remainingTime = 0 THEN 1 ELSE 0)

\* the longest countdown ran to 0 and its completion was delivered
C11_Witness ==
    /\ p0_isPlaying
    /\ p0_initialDuration = MaxDuration
    /\ p0_ticks = MaxDuration
    /\ p0_remainingTime = 0
    /\ p0_completeCalls = 1

\* C12: in part_000, setting isPlaying to true again after the countdown
\* completed restarts it from duration, with a tick source.
C12_ReplayRestarts ==
    (p0_lastStep = "setIsPlaying" /\ p0_isPlaying /\ p0_ticks >= p0_initialDuration) =>
        (p0_remainingTime = p0_duration /\ p0_intervals # {})

\* C13: in CircularTimer2.tsx with a positive duration, isOvertime holds
\* exactly when remaining <= 0.
C13_OvertimeIffNonPositive == isOvertime <=> remainingTime <= 0

\* the timer one tick past the crossing
C13_Witness == isOvertime /\ remainingTime < 0 /\ lastStep = "tick"

\* C14: with a zero or negative duration, both ring offsets of
\* CircularTimer2.tsx stay within [0, circumference].
C14_OffsetsInRangeMisconfigured ==
    initialDuration <= 0 =>
        /\ RLeq(RZero, offset) /\ RLeq(offset, circumference)
        /\ RLeq(RZero, overtimeOffset) /\ RLeq(overtimeOffset, circumference)

\* C15: with a zero or negative duration, pressing play puts
\* CircularTimer2.tsx directly into the completed state, onComplete invoked,
\* before any tick.
C15_StartCompletesAtOnce ==
    (lastStep \in {"play", "restart"} /\ duration <= 0) =>
        (isOvertime /\ completeCalls = 1)

\* two decimal digits of n < 100
TwoDigits(n) == <<DigitChars[(n \div 10) + 1], DigitChars[(n % 10) + 1]>>

\* C17: for |s| < 6000, formatTime(s) is the two-digit minutes floor(|s|/60),
\* a colon and the two-digit seconds |s| mod 60, with "+" in front exactly in
\* overtime.
C17_FormatTime ==
    (fmt_text # <<>> /\ Abs(fmt_seconds) < 100 * 60) =>
        fmt_text = (IF fmt_isOvertime THEN <<"+">> ELSE <<>>) \o
                   TwoDigits(Abs(fmt_seconds) \div 60) \o <<":">> \o
                   TwoDigits(Abs(fmt_seconds) % 60)

\* formatTime(125) = "02:05" has been computed
C17_Witness ==
    /\ fmt_seconds = 125
    /\ ~fmt_isOvertime
    /\ fmt_text = <<"0", "2", ":", "0", "5">>

\* C18: a duration change while running changes neither remaining, the
\* offsets, isOvertime, initialDuration nor the tick source; whenever the
\* timer is not running, remaining and initialDuration are the duration.
C18_DurationChangeDeferred ==
    /\ [](~isPlaying => (remainingTime = duration /\ initialDuration = duration))
    /\ [][(isPlaying /\ lastStep' = "setDuration") =>
            /\ duration' # duration
            /\ UNCHANGED <<remainingTime, offset, isOvertime, overtimeOffset,
                           initialDuration, intervals, intervalRef, isPlaying>>]_vars
    /\ [][(isPlaying /\ isPlaying') => initialDuration' = initialDuration]_vars

\* the duration prop changed during a run, and nothing followed it
C18_Witness ==
    /\ isPlaying
    /\ lastStep = "setDuration"
    /\ duration # initialDuration
    /\ remainingTime < initialDuration

\* clamp(r, 0, 1)
Clamp(r) == RMax(RZero, RMin(ROne, r))

\* the ring geometry that the countdown state and reference duration d give
GeometryFor(d) ==
    /\ ~isOvertime =>
           offset = TimesCircumference(ROneMinus(Clamp(Rat(remainingTime, d))))
    /\ isOvertime =>
           /\ offset = RZero
           /\ overtimeOffset = TimesCircumference(ROneMinus(Clamp(
                  Rat(0 - remainingTime, IF d # 0 THEN d ELSE OvertimeFallback))))

\* C19 (as stated): the stored geometry is the one of remaining and the
\* current duration.
C19_GeometryOfDuration == GeometryFor(duration)

\* C19 (amended): the stored geometry is the one of remaining and
\* initialDuration, the duration at the last reset (outside overtime for a
\* non-zero, in overtime for a non-negative initialDuration).
C19_GeometryOfReference ==
    /\ (~isOvertime /\ initialDuration # 0) => GeometryFor(initialDuration)
    /\ (isOvertime /\ initialDuration >= 0) => GeometryFor(initialDuration)

\* a partly run ring whose duration prop changed during the run
C19_Witness ==
    /\ isPlaying
    /\ ~isOvertime
    /\ duration # initialDuration
    /\ 0 < remainingTime /\ remainingTime < initialDuration
    /\ RLeq(offset, circumference) /\ offset # RZero /\ offset # circumference

\* C20 (as stated): in an uninterrupted run, no tick up to and including the
\* duration-th lowers the main ring offset.
C20_OffsetNeverDrops ==
    [][(lastStep' = "tick" /\ runTicks >= 0 /\ runTicks' <= duration') =>
            RLeq(offset, offset')]_vars

\* C20 (amended): in an uninterrupted run, the k-th tick for k < duration
\* raises the main ring offset to circumference * k / duration, and the
\* duration-th tick sets it to 0.
C20_OffsetRisesThenResets ==
    [][(lastStep' = "tick" /\ runTicks >= 0 /\ runTicks' <= duration') =>
            /\ runTicks' < duration' =>
                   /\ RLeq(offset, offset') /\ offset' # offset
                   /\ offset' = TimesCircumference(Rat(runTicks', duration'))
            /\ runTicks' = duration' => offset' = RZero]_vars

\* the last tick of an uninterrupted run of the longest duration
C20_Witness ==
    /\ lastStep = "tick"
    /\ duration = MaxDuration
    /\ runTicks = duration
    /\ offset = RZero
    /\ isOvertime

\* C21: in CircularTimer.tsx, a re-render with a new onComplete function and
\* the same duration and isPlaying changes neither remainingTime, isOvertime
\* nor overtimeSeconds.
C21_NewCallbackKeepsCountdown ==
    [][(ct_lastStep' = "setOnComplete") =>
            UNCHANGED <<ct_remainingTime, ct_isOvertime, ct_overtimeSeconds>>]_vars

\* C22: in part_000 and CircularTimer.tsx, no step of an unmounted component
\* invokes onComplete.
C22_NoCompleteAfterUnmount ==
    /\ ~(~p0_mounted /\ p0_lastStep = "timeout")
    /\ ~(~ct_mounted /\ ct_lastStep = "timeout" /\ ct_completedNow = 1)

====
